---- MODULE Spec2Model ----
(***************************************************************************)
(* State-machine model of the INDI GPS NMEA driver                         *)
(* (src/indi-gpsnmea/gpsnmea_driver.cpp): the acquisition thread           *)
(* GPSNMEA::parseNEMA, the refresh request GPSNMEA::updateGPS and the      *)
(* state they share.                                                       *)
(*                                                                         *)
(* Threads: 0 is the driver's main (event loop) thread, 1..MaxWorkers are  *)
(* the threads created by pthread_create in updateProperties.              *)
(***************************************************************************)
EXTENDS Integers, Sequences, FiniteSets, TLC

\* #define MAX_TIMEOUT_COUNT 5
MAX_TIMEOUT_COUNT == 5

\* Number of acquisition threads the model provides slots for.
MaxWorkers == 2

Workers == 1..MaxWorkers

MainThread == 0

(***************************************************************************)
(* Decoded sentences.  A line read from the transport is represented by    *)
(* what minmea_sentence_id and minmea_parse_xxx make of it: the sentence   *)
(* id, whether the type-specific parse succeeds, and the frame's fields.   *)
(* An absent date or time field is decoded by minmea as -1.                *)
(***************************************************************************)
\* Coordinates as minmea decodes them: DDDMM (degrees and whole minutes), negative
\* for S and W.  Altitude in tenths of a metre.
LatVals == {4807}

LonVals == {-18000, -30, 1131}

AltVals == {5454}

DateVals == {-1, 1}

TimeVals == {-1, 7}

Frame(id, parsed, valid, fq, ft, la, lo, al, d, t) ==
    [id |-> id, parsed |-> parsed, valid |-> valid, fix_quality |-> fq,
     fix_type |-> ft, latitude |-> la, longitude |-> lo, altitude |-> al,
     date |-> d, time |-> t]

NoFrame == Frame("NONE", FALSE, FALSE, 0, 0, 0, 0, 0, -1, -1)

\* A line whose type-specific parse fails: the frame's fields are not used.
Unparsed(id) == Frame(id, FALSE, FALSE, 0, 0, 0, 0, 0, -1, -1)

RmcFrames ==
    {Unparsed("RMC")} \cup
    {Frame("RMC", TRUE, v, 0, 0, la, lo, 0, d, t) :
        v \in BOOLEAN, la \in LatVals, lo \in LonVals, d \in DateVals, t \in TimeVals}

GgaFixQualities == {0, 1, 2}

GgaFrames ==
    {Unparsed("GGA")} \cup
    {Frame("GGA", TRUE, FALSE, fq, 0, la, lo, al, -1, t) :
        fq \in GgaFixQualities, la \in LatVals, lo \in LonVals, al \in AltVals,
        t \in TimeVals}

GsaFixTypes == {0, 1, 2, 3}

GsaFrames ==
    {Unparsed("GSA")} \cup
    {Frame("GSA", TRUE, FALSE, 0, ft, 0, 0, 0, -1, -1) : ft \in GsaFixTypes}

ZdaFrames ==
    {Unparsed("ZDA")} \cup
    {Frame("ZDA", TRUE, FALSE, 0, 0, 0, 0, 0, d, t) : d \in DateVals, t \in TimeVals}

\* MINMEA_INVALID, and a recognised sentence type the switch does not handle.
OtherFrames == {Unparsed("INVALID"), Unparsed("OTHER")}

AllFrames == RmcFrames \cup GgaFrames \cup GsaFrames \cup ZdaFrames \cup OtherFrames

(***************************************************************************)
(* Time derivation.  minmea_gettime returns -1 when the date or the time   *)
(* field is absent and otherwise 0 with tv_sec set to the epoch time; on   *)
(* failure it leaves *ts as it was, which in parseNEMA is uninitialised.   *)
(* Dates are day numbers and times are seconds of the day.                 *)
(***************************************************************************)
Epoch(d, t) == d * 86400 + t

minmea_gettime(d, t) ==
    IF d = -1 \/ t = -1 THEN [rc |-> -1, tv_sec |-> 0]
    ELSE [rc |-> 0, tv_sec |-> Epoch(d, t)]

ValidDates == DateVals \ {-1}

ValidTimes == TimeVals \ {-1}

\* The values an uninitialised struct timespec may hold.
UninitEpochs == {0} \cup {Epoch(d, t) : d \in ValidDates, t \in ValidTimes}

\* local->tm_gmtoff / 3600.0 of the host's time zone.
GmtOffsets == {2}

\* A text element of a property: <<>> is the empty text, <<v>> the text
\* that formats v.
Text(v) == <<v>>

\* TTY result codes and errno values the loop distinguishes.
TtyFailures == {"TTY_OVERFLOW", "TTY_TIME_OUT", "TTY_READ_ERROR"}

Errnos == {"ECONNREFUSED", "EOTHER"}

(***************************************************************************)
(* Lines as isNMEA sees them.  minmea_sentence_id(line, false) returns     *)
(* MINMEA_INVALID unless the line starts with '$' and its checksum, when   *)
(* it has one, matches; otherwise it returns the sentence type named by    *)
(* the address field, MINMEA_UNKNOWN when it knows no such type.           *)
(***************************************************************************)
Checksums == {"none", "good", "bad"}

LineTypes == {"RMC", "TXT"}

Lines == [sentinel : BOOLEAN, checksum : Checksums, type : LineTypes]

NoLine == [sentinel |-> FALSE, checksum |-> "none", type |-> "NONE"]

\* No isNMEA call has been made.
NoProbe == [reads |-> 0, tty_rc |-> "TTY_OK", line |-> NoLine, ret |-> FALSE]

KnownTypes == {"RMC", "GGA", "GSA", "GLL", "GST", "GSV", "VTG", "ZDA"}

minmea_check(l) == l.sentinel /\ l.checksum # "bad"

minmea_sentence_id(l) ==
    IF ~minmea_check(l) THEN "INVALID"
    ELSE IF l.type \in KnownTypes THEN l.type
    ELSE "UNKNOWN"

VARIABLES
    connected,        \* INDI::DefaultDevice::isConnected()
    tcpFD,            \* tcpConnection's socket: -1 when the transport is down
    PortFD,           \* the driver's read handle
    timeoutCounter,
    locationPending,
    timePending,
    lock,             \* the threads holding the pthread mutex (at most one)
    LocationNP,       \* [lat, lon, elev]
    TimeTP,           \* <<UTC text, offset text>>
    GPSstatusTP,      \* [s, text]: state and GPSstatusT[0]
    clientStatus,     \* the GPS_STATUS vector last sent by IDSetText
    statusDefined,    \* GPS_STATUS defined to the client
    sysTime,          \* the argument of the last setSystemTime call
    mainPc,           \* main thread: "idle" or inside updateGPS
    rc,               \* what the last updateGPS call returned
    quiet,            \* no sentence cleared a flag since that call returned
    pc,               \* worker -> position in parseNEMA
    cur,              \* worker -> frame decoded from the line just read
    tty_rc,           \* worker -> result of its last tty_nread_section
    errno,            \* worker -> errno after its last read
    calls,            \* worker -> collaborator calls made since its last read
    toRun,            \* [len, rec]: consecutive timeouts counted from
                      \* timeoutCounter = 0, and the reconnects they triggered
    probe,            \* isNMEA in the connection attempt under way:
                      \* [reads, tty_rc, line, ret]
    streak,           \* read outcomes in a row, up to now, that were timeouts
    stale             \* worker -> a refresh request was accepted after the
                      \* worker read the line it holds

vars == <<connected, tcpFD, PortFD, timeoutCounter, locationPending, timePending,
          lock, LocationNP, TimeTP, GPSstatusTP, clientStatus, statusDefined,
          sysTime, mainPc, rc, quiet, pc, cur, tty_rc, errno, calls, toRun,
          probe, streak, stale>>

fixVars == <<LocationNP, TimeTP, sysTime>>

statusVars == <<GPSstatusTP, clientStatus, statusDefined>>

flagVars == <<locationPending, timePending>>

tcpVars == <<tcpFD, PortFD>>

mainVars == <<mainPc, rc, quiet>>

(***************************************************************************)
(* The state once the driver is connected for the first time and           *)
(* updateProperties has created the acquisition thread: the handshake has  *)
(* set PortFD, every property still holds its initial value.  The flags'   *)
(* initial values are set in the class declaration: both pending or none.  *)
(***************************************************************************)
Init ==
    /\ connected = TRUE
    /\ tcpFD = 3
    /\ PortFD = 3
    /\ timeoutCounter = 0
    /\ locationPending \in BOOLEAN
    /\ timePending = locationPending
    /\ lock = {}
    /\ LocationNP = [lat |-> 0, lon |-> 0, elev |-> 0]
    /\ TimeTP = << <<>>, <<>> >>
    /\ GPSstatusTP = [s |-> "IPS_IDLE", text |-> ""]
    /\ clientStatus = [s |-> "IPS_IDLE", text |-> ""]
    /\ statusDefined = TRUE
    /\ sysTime = <<>>
    /\ mainPc = "idle"
    /\ rc = "none"
    /\ quiet = FALSE
    /\ pc = [w \in Workers |-> IF w = 1 THEN "loop" ELSE "unborn"]
    /\ cur = [w \in Workers |-> NoFrame]
    /\ tty_rc = [w \in Workers |-> "TTY_OK"]
    /\ errno = [w \in Workers |-> "EOTHER"]
    /\ calls = [w \in Workers |-> <<>>]
    /\ toRun = [len |-> 0, rec |-> 0]
    /\ probe = NoProbe
    /\ streak = 0
    /\ stale = [w \in Workers |-> FALSE]

(***************************************************************************)
(* GPSNMEA::updateGPS, run by the main thread.                             *)
(***************************************************************************)
\* Mutant: a request is accepted as soon as one flag is clear.
RefreshAcceptedEither == locationPending = FALSE \/ timePending = FALSE

\* if (locationPending == false && timePending == false)
RefreshAccepted == locationPending = FALSE /\ timePending = FALSE

\* pthread_mutex_lock(&lock)
UpdateGPSLock ==
    /\ mainPc = "idle"
    /\ lock = {}
    /\ lock' = {MainThread}
    /\ mainPc' = "updateGPS"
    /\ UNCHANGED <<connected, tcpVars, timeoutCounter, flagVars, fixVars, statusVars,
                   rc, quiet, pc, cur, tty_rc, errno, calls, toRun,
                   probe, streak, stale>>

\* Worker w has read a line whose processing is not finished.
HoldsLine(w) == pc[w] \in {"dispatch", "lock", "locked"}

\* the critical section, pthread_mutex_unlock and return rc
UpdateGPSBody ==
    /\ mainPc = "updateGPS"
    /\ IF RefreshAccepted
       THEN /\ rc' = "IPS_OK"
            /\ locationPending' = TRUE
            /\ timePending' = TRUE
            /\ stale' = [w \in Workers |-> HoldsLine(w)]
       ELSE /\ rc' = "IPS_BUSY"
            /\ UNCHANGED <<flagVars, stale>>
    /\ lock' = lock \ {MainThread}
    /\ mainPc' = "idle"
    /\ quiet' = TRUE
    /\ UNCHANGED <<connected, tcpVars, timeoutCounter, fixVars, statusVars,
                   pc, cur, tty_rc, errno, calls, toRun,
                   probe, streak>>

(***************************************************************************)
(* The handshake registered in initProperties and GPSNMEA::isNMEA, run by  *)
(* the main thread when the client asks the disconnected driver to         *)
(* connect and the transport's connect has succeeded.                      *)
(***************************************************************************)
\* PortFD = tcpConnection->getPortFD(); the call of isNMEA()
Handshake ==
    /\ mainPc = "idle"
    /\ ~connected
    /\ tcpFD' = 3
    /\ PortFD' = tcpFD'
    /\ probe' = NoProbe
    /\ mainPc' = "isNMEA"
    /\ UNCHANGED <<connected, timeoutCounter, flagVars, lock, fixVars, statusVars,
                   rc, quiet, pc, cur, tty_rc, errno, calls, toRun, streak, stale>>

\* tty_nread_section in isNMEA: it returns line l with result r = TTY_OK,
\* or fails with result r
IsNMEARead(r, l) ==
    /\ mainPc = "isNMEA"
    /\ (r = "TTY_OK") = (l \in Lines)
    /\ probe' = [probe EXCEPT !.reads = probe.reads + 1, !.tty_rc = r, !.line = l]
    /\ mainPc' = "isNMEA_return"
    /\ UNCHANGED <<connected, tcpVars, timeoutCounter, flagVars, lock, fixVars,
                   statusVars, rc, quiet, pc, cur, tty_rc, errno, calls, toRun,
                   streak, stale>>

\* Mutant: every line that was read passes the probe.
ProbeResultAnyLine(r, l) == r = "TTY_OK"

\* if (tty_rc < 0) return false;
\* return (minmea_sentence_id(line, false) != MINMEA_INVALID)
ProbeResult(r, l) == r = "TTY_OK" /\ minmea_sentence_id(l) # "INVALID"

\* the return of isNMEA, and of the handshake
IsNMEAReturn ==
    /\ mainPc = "isNMEA_return"
    /\ probe' = [probe EXCEPT !.ret = ProbeResult(probe.tty_rc, probe.line)]
    /\ mainPc' = "idle"
    /\ UNCHANGED <<connected, tcpVars, timeoutCounter, flagVars, lock, fixVars,
                   statusVars, rc, quiet, pc, cur, tty_rc, errno, calls, toRun,
                   streak, stale>>

IsNMEA ==
    \/ \E l \in Lines : IsNMEARead("TTY_OK", l)
    \/ \E r \in TtyFailures : IsNMEARead(r, NoLine)
    \/ IsNMEAReturn

\* A thread slot pthread_create can take: never used, or its thread ended.
Free(w) == pc[w] \in {"unborn", "exited"}

\* The handshake returned true: the driver is set connected and
\* updateProperties runs its connected branch, defineProperty(&GPSstatusTP)
\* and pthread_create, which starts parseNEMA as thread w.
UpdateProperties(w) ==
    /\ mainPc = "idle"
    /\ ~connected
    /\ probe.reads = 1 /\ probe.ret
    /\ Free(w)
    /\ connected' = TRUE
    /\ statusDefined' = TRUE
    /\ probe' = NoProbe
    /\ pc' = [pc EXCEPT ![w] = "loop"]
    /\ cur' = [cur EXCEPT ![w] = NoFrame]
    /\ tty_rc' = [tty_rc EXCEPT ![w] = "TTY_OK"]
    /\ errno' = [errno EXCEPT ![w] = "EOTHER"]
    /\ calls' = [calls EXCEPT ![w] = <<>>]
    /\ stale' = [stale EXCEPT ![w] = FALSE]
    /\ UNCHANGED <<tcpVars, timeoutCounter, flagVars, lock, fixVars, GPSstatusTP,
                   clientStatus, mainVars, toRun, streak>>

(***************************************************************************)
(* GPSNMEA::parseNEMA, run by worker w.                                    *)
(***************************************************************************)
Goto(w, l) == pc' = [pc EXCEPT ![w] = l]

Called(w, names) == calls' = [calls EXCEPT ![w] = calls[w] \o names]

NoRun == [len |-> 0, rec |-> 0]

\* while (isConnected()) ... pthread_exit(nullptr)
WLoop(w) ==
    /\ pc[w] = "loop"
    /\ Goto(w, IF connected THEN "read" ELSE "exited")
    /\ UNCHANGED <<connected, tcpVars, timeoutCounter, flagVars, lock, fixVars,
                   statusVars, mainVars, cur, tty_rc, errno, calls, toRun,
                   probe, streak, stale>>

\* tty_nread_section returns a line, decoded to frame f
WReadLine(w, f) ==
    /\ pc[w] = "read"
    /\ PortFD # -1 /\ PortFD = tcpFD
    /\ cur' = [cur EXCEPT ![w] = f]
    /\ tty_rc' = [tty_rc EXCEPT ![w] = "TTY_OK"]
    /\ calls' = [calls EXCEPT ![w] = <<>>]
    /\ toRun' = NoRun
    /\ streak' = 0
    /\ stale' = [stale EXCEPT ![w] = FALSE]
    /\ Goto(w, "dispatch")
    /\ UNCHANGED <<connected, tcpVars, timeoutCounter, flagVars, lock, fixVars,
                   statusVars, mainVars, errno,
                   probe>>

Min(a, b) == IF a < b THEN a ELSE b

\* The failure takes the timeout branch: tty_rc == TTY_TIME_OUT and errno is
\* not ECONNREFUSED.
IsTimeout(r, e) == r = "TTY_TIME_OUT" /\ e # "ECONNREFUSED"

\* tty_nread_section fails with result r, leaving errno at e
WReadFail(w, r, e) ==
    /\ pc[w] = "read"
    /\ cur' = [cur EXCEPT ![w] = NoFrame]
    /\ tty_rc' = [tty_rc EXCEPT ![w] = r]
    /\ errno' = [errno EXCEPT ![w] = e]
    /\ calls' = [calls EXCEPT ![w] = <<>>]
    /\ streak' = IF IsTimeout(r, e) THEN Min(streak + 1, MAX_TIMEOUT_COUNT + 2) ELSE 0
    /\ stale' = [stale EXCEPT ![w] = FALSE]
    /\ Goto(w, "failed")
    /\ UNCHANGED <<connected, tcpVars, timeoutCounter, flagVars, lock, fixVars,
                   statusVars, mainVars, toRun,
                   probe>>

\* Mutant: the overflow branch marks the driver disconnected and continues
\* the loop instead of leaving it.
WOverflowContinue(w) ==
    /\ pc[w] = "failed"
    /\ tty_rc[w] = "TTY_OVERFLOW"
    /\ connected' = FALSE
    /\ statusDefined' = FALSE
    /\ calls' = [calls EXCEPT ![w] = calls[w] \o <<"setConnected", "updateProperties">>]
    /\ toRun' = [len |-> 0, rec |-> 0]
    /\ pc' = [pc EXCEPT ![w] = "loop"]
    /\ UNCHANGED <<tcpVars, timeoutCounter, flagVars, lock, fixVars, GPSstatusTP,
                   clientStatus, mainVars, cur, tty_rc, errno,
                   probe, streak, stale>>

\* if (tty_rc == TTY_OVERFLOW): setConnected(false); updateProperties(); break
WOverflow(w) ==
    /\ pc[w] = "failed"
    /\ tty_rc[w] = "TTY_OVERFLOW"
    /\ connected' = FALSE
    /\ statusDefined' = FALSE
    /\ Called(w, <<"setConnected", "updateProperties">>)
    /\ toRun' = NoRun
    /\ Goto(w, "exited")
    /\ UNCHANGED <<tcpVars, timeoutCounter, flagVars, lock, fixVars, GPSstatusTP,
                   clientStatus, mainVars, cur, tty_rc, errno,
                   probe, streak, stale>>

\* Mutant: any other read error ends the thread.
WOtherTransientBreak(w) ==
    /\ pc[w] = "failed"
    /\ tty_rc[w] # "TTY_OVERFLOW"
    /\ ~(tty_rc[w] = "TTY_TIME_OUT" \/ errno[w] = "ECONNREFUSED")
    /\ toRun' = [len |-> 0, rec |-> 0]
    /\ pc' = [pc EXCEPT ![w] = "exited"]
    /\ UNCHANGED <<connected, tcpVars, timeoutCounter, flagVars, lock, fixVars,
                   statusVars, mainVars, cur, tty_rc, errno, calls,
                   probe, streak, stale>>

\* neither a timeout nor ECONNREFUSED: continue
WOtherTransient(w) ==
    /\ pc[w] = "failed"
    /\ tty_rc[w] # "TTY_OVERFLOW"
    /\ ~(tty_rc[w] = "TTY_TIME_OUT" \/ errno[w] = "ECONNREFUSED")
    /\ toRun' = NoRun
    /\ Goto(w, "loop")
    /\ UNCHANGED <<connected, tcpVars, timeoutCounter, flagVars, lock, fixVars,
                   statusVars, mainVars, cur, tty_rc, errno, calls,
                   probe, streak, stale>>

\* Mutant: the cooldown comes first, the transport is left connected.
WRefusedNoDisconnect(w) ==
    /\ pc[w] = "failed"
    /\ tty_rc[w] # "TTY_OVERFLOW"
    /\ errno[w] = "ECONNREFUSED"
    /\ toRun' = [len |-> 0, rec |-> 0]
    /\ pc' = [pc EXCEPT ![w] = "refused_sleep"]
    /\ UNCHANGED <<connected, tcpVars, timeoutCounter, flagVars, lock, fixVars,
                   statusVars, mainVars, cur, tty_rc, errno, calls,
                   probe, streak, stale>>

\* if (errno == ECONNREFUSED): tcpConnection->Disconnect()
WRefused(w) ==
    /\ pc[w] = "failed"
    /\ tty_rc[w] # "TTY_OVERFLOW"
    /\ errno[w] = "ECONNREFUSED"
    /\ tcpFD' = -1
    /\ Called(w, <<"Disconnect">>)
    /\ toRun' = NoRun
    /\ Goto(w, "refused_sleep")
    /\ UNCHANGED <<connected, PortFD, timeoutCounter, flagVars, lock, fixVars,
                   statusVars, mainVars, cur, tty_rc, errno,
                   probe, streak, stale>>

\* usleep(10 * 1e6)
WRefusedSleep(w) ==
    /\ pc[w] = "refused_sleep"
    /\ Called(w, <<"usleep10">>)
    /\ Goto(w, "refused_connect")
    /\ UNCHANGED <<connected, tcpVars, timeoutCounter, flagVars, lock, fixVars,
                   statusVars, mainVars, cur, tty_rc, errno, toRun,
                   probe, streak, stale>>

\* tcpConnection->Connect(), which succeeds or not; PortFD = getPortFD()
WRefusedConnect(w, ok) ==
    /\ pc[w] = "refused_connect"
    /\ tcpFD' = IF ok THEN 3 ELSE -1
    /\ PortFD' = tcpFD'
    /\ Called(w, <<"Connect", "getPortFD">>)
    /\ Goto(w, "loop")
    /\ UNCHANGED <<connected, timeoutCounter, flagVars, lock, fixVars,
                   statusVars, mainVars, cur, tty_rc, errno, toRun,
                   probe, streak, stale>>

\* else if (timeoutCounter++ > MAX_TIMEOUT_COUNT)
TimeoutLimitReached == timeoutCounter > MAX_TIMEOUT_COUNT

\* A timeout read while timeoutCounter is 0 starts a run of consecutive
\* timeouts; a later one continues the run it finds.
RunAfterTimeout ==
    IF timeoutCounter = 0 THEN [len |-> 1, rec |-> 0]
    ELSE IF toRun.len > 0 THEN [toRun EXCEPT !.len = toRun.len + 1]
    ELSE NoRun

\* the timeout branch up to tcpConnection->Disconnect(), or continue
WTimeout(w) ==
    /\ pc[w] = "failed"
    /\ tty_rc[w] = "TTY_TIME_OUT"
    /\ errno[w] # "ECONNREFUSED"
    /\ timeoutCounter' = timeoutCounter + 1
    /\ toRun' = RunAfterTimeout
    /\ IF TimeoutLimitReached
       THEN /\ tcpFD' = -1
            /\ Called(w, <<"Disconnect">>)
            /\ Goto(w, "timeout_sleep")
       ELSE /\ Goto(w, "loop")
            /\ UNCHANGED <<tcpFD, calls>>
    /\ UNCHANGED <<connected, PortFD, flagVars, lock, fixVars,
                   statusVars, mainVars, cur, tty_rc, errno,
                   probe, streak, stale>>

\* usleep(5 * 1e6)
WTimeoutSleep(w) ==
    /\ pc[w] = "timeout_sleep"
    /\ Called(w, <<"usleep5">>)
    /\ Goto(w, "timeout_connect")
    /\ UNCHANGED <<connected, tcpVars, timeoutCounter, flagVars, lock, fixVars,
                   statusVars, mainVars, cur, tty_rc, errno, toRun,
                   probe, streak, stale>>

\* Mutant: the forced reconnect starts over with an empty location.
WTimeoutConnectForgets(w, ok) ==
    /\ pc[w] = "timeout_connect"
    /\ tcpFD' = IF ok THEN 3 ELSE -1
    /\ PortFD' = tcpFD'
    /\ timeoutCounter' = 0
    /\ LocationNP' = [lat |-> 0, lon |-> 0, elev |-> 0]
    /\ calls' = [calls EXCEPT ![w] = calls[w] \o <<"Connect", "getPortFD">>]
    /\ toRun' = IF toRun.len > 0 THEN [toRun EXCEPT !.rec = toRun.rec + 1] ELSE toRun
    /\ pc' = [pc EXCEPT ![w] = "loop"]
    /\ UNCHANGED <<connected, flagVars, lock, TimeTP, sysTime,
                   statusVars, mainVars, cur, tty_rc, errno,
                   probe, streak, stale>>

\* tcpConnection->Connect(); PortFD = getPortFD(); timeoutCounter = 0
WTimeoutConnect(w, ok) ==
    /\ pc[w] = "timeout_connect"
    /\ tcpFD' = IF ok THEN 3 ELSE -1
    /\ PortFD' = tcpFD'
    /\ timeoutCounter' = 0
    /\ Called(w, <<"Connect", "getPortFD">>)
    /\ toRun' = IF toRun.len > 0 THEN [toRun EXCEPT !.rec = toRun.rec + 1] ELSE toRun
    /\ Goto(w, "loop")
    /\ UNCHANGED <<connected, flagVars, lock, fixVars,
                   statusVars, mainVars, cur, tty_rc, errno,
                   probe, streak, stale>>

(***************************************************************************)
(* The sentence switch.                                                    *)
(***************************************************************************)
\* C integer division and remainder (truncation towards zero).
CDiv(a, b) == IF a >= 0 THEN a \div b ELSE -((-a) \div b)

CRem(a, b) == a - b * CDiv(a, b)

\* minmea_tocoord of a DDDMM value, in arc minutes: degrees + minutes / 60.
minmea_tocoord(v) == CDiv(v, 100) * 60 + CRem(v, 100)

\* 360 degrees, in arc minutes
FullCircle == 360 * 60

\* Mutant: the longitude is stored as decoded.
NormalizeLongitudeNoWrap(lon) == lon

\* if (LocationNP[LOCATION_LONGITUDE].value < 0) ... += 360
NormalizeLongitude(lon) == IF lon < 0 THEN lon + FullCircle ELSE lon

\* the location writes of the RMC and GGA cases
WithLocation(loc, f) ==
    [loc EXCEPT !.lat = minmea_tocoord(f.latitude),
                !.lon = NormalizeLongitude(minmea_tocoord(f.longitude))]

\* raw_time = timesp.tv_sec after a minmea_gettime whose result is not
\* checked: the derived time, or whatever the uninitialised timesp holds.
UncheckedTimes(g) == IF g.rc = 0 THEN {g.tv_sec} ELSE UninitEpochs

\* Mutant: the time fields are set, the system clock is left alone.
ApplyTimeNoClock(w, raw_time, off) ==
    /\ TimeTP' = <<Text(raw_time), Text(off)>>
    /\ UNCHANGED <<sysTime, calls>>

\* TimeTP[0].setText, setSystemTime(raw_time), TimeTP[1].setText
ApplyTime(w, raw_time, off) ==
    /\ TimeTP' = <<Text(raw_time), Text(off)>>
    /\ sysTime' = Text(raw_time)
    /\ Called(w, <<"setSystemTime">>)

\* a sentence that is dropped: break out of the switch with nothing written
Dropped(w) ==
    /\ Goto(w, "loop")
    /\ UNCHANGED <<fixVars, calls>>

\* case MINMEA_SENTENCE_RMC, up to pthread_mutex_lock
WApplyRMC(w) ==
    /\ pc[w] = "dispatch"
    /\ cur[w].id = "RMC"
    /\ IF cur[w].parsed /\ cur[w].valid
       THEN LET g == minmea_gettime(cur[w].date, cur[w].time) IN
            /\ LocationNP' = WithLocation(LocationNP, cur[w])
            /\ IF g.rc = -1
               THEN /\ Goto(w, "loop")
                    /\ UNCHANGED <<TimeTP, sysTime, calls>>
               ELSE /\ \E off \in GmtOffsets : ApplyTime(w, g.tv_sec, off)
                    /\ Goto(w, "lock")
       ELSE Dropped(w)
    /\ UNCHANGED <<connected, tcpVars, timeoutCounter, flagVars, lock,
                   statusVars, mainVars, cur, tty_rc, errno, toRun,
                   probe, streak, stale>>

\* Mutant: every non-zero fix quality is accepted.
GgaAcceptedNonZero(f) == f.fix_quality # 0

\* if (frame.fix_quality == 1)
GgaAccepted(f) == f.fix_quality = 1

\* case MINMEA_SENTENCE_GGA, up to pthread_mutex_lock; the date is the
\* system's current UTC date
WApplyGGA(w) ==
    /\ pc[w] = "dispatch"
    /\ cur[w].id = "GGA"
    /\ IF cur[w].parsed /\ GgaAccepted(cur[w])
       THEN /\ LocationNP' = [WithLocation(LocationNP, cur[w])
                                 EXCEPT !.elev = cur[w].altitude]
            /\ \E today \in ValidDates :
               \E raw_time \in UncheckedTimes(minmea_gettime(today, cur[w].time)) :
               \E off \in GmtOffsets : ApplyTime(w, raw_time, off)
            /\ Goto(w, "lock")
       ELSE Dropped(w)
    /\ UNCHANGED <<connected, tcpVars, timeoutCounter, flagVars, lock,
                   statusVars, mainVars, cur, tty_rc, errno, toRun,
                   probe, streak, stale>>

\* case MINMEA_SENTENCE_ZDA, up to pthread_mutex_lock
WApplyZDA(w) ==
    /\ pc[w] = "dispatch"
    /\ cur[w].id = "ZDA"
    /\ IF cur[w].parsed
       THEN /\ \E raw_time \in UncheckedTimes(minmea_gettime(cur[w].date, cur[w].time)) :
               \E off \in GmtOffsets : ApplyTime(w, raw_time, off)
            /\ Goto(w, "lock")
            /\ UNCHANGED LocationNP
       ELSE Dropped(w)
    /\ UNCHANGED <<connected, tcpVars, timeoutCounter, flagVars, lock,
                   statusVars, mainVars, cur, tty_rc, errno, toRun,
                   probe, streak, stale>>

\* Mutant: the 2D and 3D labels are swapped.
GsaStatusSwapped(old, ft) ==
    IF ft = 1 THEN [s |-> "IPS_BUSY", text |-> "NO FIX"]
    ELSE IF ft = 2 THEN [s |-> "IPS_OK", text |-> "3D FIX"]
    ELSE IF ft = 3 THEN [s |-> "IPS_OK", text |-> "2D FIX"]
    ELSE old

\* the label and state the GSA case saves for a fix type
GsaStatus(old, ft) ==
    IF ft = 1 THEN [s |-> "IPS_BUSY", text |-> "NO FIX"]
    ELSE IF ft = 2 THEN [s |-> "IPS_OK", text |-> "2D FIX"]
    ELSE IF ft = 3 THEN [s |-> "IPS_OK", text |-> "3D FIX"]
    ELSE old

\* case MINMEA_SENTENCE_GSA: IUSaveText and IDSetText(&GPSstatusTP)
WApplyGSA(w) ==
    /\ pc[w] = "dispatch"
    /\ cur[w].id = "GSA"
    /\ IF cur[w].parsed
       THEN /\ GPSstatusTP' = GsaStatus(GPSstatusTP, cur[w].fix_type)
            /\ clientStatus' = GPSstatusTP'
            /\ Called(w, <<"IDSetText">>)
       ELSE UNCHANGED <<GPSstatusTP, clientStatus, calls>>
    /\ Goto(w, "loop")
    /\ UNCHANGED <<connected, tcpVars, timeoutCounter, flagVars, lock, fixVars,
                   statusDefined, mainVars, cur, tty_rc, errno, toRun,
                   probe, streak, stale>>

\* case MINMEA_INVALID and default
WSkip(w) ==
    /\ pc[w] = "dispatch"
    /\ cur[w].id \in {"INVALID", "OTHER"}
    /\ Goto(w, "loop")
    /\ UNCHANGED <<connected, tcpVars, timeoutCounter, flagVars, lock, fixVars,
                   statusVars, mainVars, cur, tty_rc, errno, calls, toRun,
                   probe, streak, stale>>

\* pthread_mutex_lock(&lock) of the RMC, GGA and ZDA cases
WLock(w) ==
    /\ pc[w] = "lock"
    /\ lock = {}
    /\ lock' = {w}
    /\ Goto(w, "locked")
    /\ UNCHANGED <<connected, tcpVars, timeoutCounter, flagVars, fixVars,
                   statusVars, mainVars, cur, tty_rc, errno, calls, toRun,
                   probe, streak, stale>>

\* Mutant: only GGA clears the location flag.
ClearsLocationGgaOnly(id) == id = "GGA"

\* Mutant: ZDA clears the location flag too.
ClearsLocationAlways(id) == id \in {"RMC", "GGA", "ZDA"}

\* the flags a sentence type clears: ZDA the time flag only
ClearsLocation(id) == id \in {"RMC", "GGA"}

\* Mutant: RMC and GGA clear the location flag only.
ClearsTimeZdaOnly(id) == id = "ZDA"

\* timePending = false: in the RMC, the GGA and the ZDA critical section
ClearsTime(id) == id \in {"RMC", "GGA", "ZDA"}

\* Mutant: the thread goes back to reading with the mutex still held.
WClearKeepsLock(w) ==
    /\ pc[w] = "locked"
    /\ timePending' = IF ClearsTime(cur[w].id) THEN FALSE ELSE timePending
    /\ locationPending' = IF ClearsLocation(cur[w].id) THEN FALSE ELSE locationPending
    /\ quiet' = FALSE
    /\ pc' = [pc EXCEPT ![w] = "loop"]
    /\ UNCHANGED <<connected, tcpVars, timeoutCounter, lock, fixVars,
                   statusVars, mainPc, rc, cur, tty_rc, errno, calls, toRun,
                   probe, streak, stale>>

\* the critical section and pthread_mutex_unlock
WClear(w) ==
    /\ pc[w] = "locked"
    /\ timePending' = IF ClearsTime(cur[w].id) THEN FALSE ELSE timePending
    /\ locationPending' = IF ClearsLocation(cur[w].id) THEN FALSE ELSE locationPending
    /\ lock' = lock \ {w}
    /\ quiet' = FALSE
    /\ Goto(w, "loop")
    /\ UNCHANGED <<connected, tcpVars, timeoutCounter, fixVars,
                   statusVars, mainPc, rc, cur, tty_rc, errno, calls, toRun,
                   probe, streak, stale>>

\* the driver is disconnected by its client: isConnected() turns false
DriverDisconnect ==
    /\ connected
    /\ connected' = FALSE
    /\ statusDefined' = FALSE
    /\ UNCHANGED <<tcpVars, timeoutCounter, flagVars, lock, fixVars, GPSstatusTP,
                   clientStatus, mainVars, pc, cur, tty_rc, errno, calls, toRun,
                   probe, streak, stale>>

(***************************************************************************)
(* Specifications.                                                         *)
(***************************************************************************)
WProcess(w) ==
    \/ WApplyRMC(w)
    \/ WApplyGGA(w)
    \/ WApplyZDA(w)
    \/ WApplyGSA(w)
    \/ WSkip(w)
    \/ WLock(w)
    \/ WClear(w)

WRecover(w) ==
    \/ WOverflow(w)
    \/ WOtherTransient(w)
    \/ WRefused(w)
    \/ WRefusedSleep(w)
    \/ \E ok \in BOOLEAN : WRefusedConnect(w, ok)
    \/ WTimeout(w)
    \/ WTimeoutSleep(w)
    \/ \E ok \in BOOLEAN : WTimeoutConnect(w, ok)

UpdateGPS == UpdateGPSLock \/ UpdateGPSBody

\* The sentence stream: the transport delivers lines and never fails.
NextFix ==
    \/ UpdateGPS
    \/ \E w \in Workers :
        \/ WLoop(w)
        \/ \E f \in AllFrames : WReadLine(w, f)
        \/ WProcess(w)

SpecFix == Init /\ [][NextFix]_vars

\* One accepted sentence of each handled type, an invalid line, a line of
\* a type the switch does not handle and a line whose parse fails.
SampleFrames ==
    {Frame("RMC", TRUE, TRUE, 0, 0, 4807, -30, 0, 1, 7),
     Frame("GGA", TRUE, FALSE, 1, 0, 4807, -30, 5454, -1, 7),
     Frame("GSA", TRUE, FALSE, 0, 3, 0, 0, 0, -1, -1),
     Frame("ZDA", TRUE, FALSE, 0, 0, 0, 0, 0, 1, 7),
     Unparsed("INVALID"), Unparsed("OTHER"),
     Unparsed("RMC"), Unparsed("GGA"), Unparsed("GSA"), Unparsed("ZDA")}

\* Every operation: reads succeed or fail in every way, the client may
\* disconnect the driver.
Next ==
    \/ UpdateGPS
    \/ DriverDisconnect
    \/ \E w \in Workers :
        \/ WLoop(w)
        \/ \E f \in SampleFrames : WReadLine(w, f)
        \/ \E r \in TtyFailures, e \in Errnos : WReadFail(w, r, e)
        \/ WProcess(w)
        \/ WRecover(w)

Spec == Init /\ [][Next]_vars

\* The loop's control flow alone: one accepted sentence type and an invalid
\* line stand for the sentence switch, every read failure and every
\* recovery step is there, the client may disconnect the driver.
ExitFrames ==
    {Frame("RMC", TRUE, TRUE, 0, 0, 4807, -30, 0, 1, 7), Unparsed("INVALID")}

WorkerExitStep(w) ==
    \/ WLoop(w)
    \/ \E f \in ExitFrames : WReadLine(w, f)
    \/ \E r \in TtyFailures, e \in Errnos : WReadFail(w, r, e)
    \/ WApplyRMC(w)
    \/ WSkip(w)
    \/ WLock(w)
    \/ WClear(w)
    \/ WRecover(w)

NextExit ==
    \/ UpdateGPS
    \/ DriverDisconnect
    \/ \E w \in Workers : WorkerExitStep(w)

\* Each thread that can take a step eventually takes one: the read and the
\* cooldown sleeps return, a thread waiting for the mutex gets it, and
\* updateGPS releases it.
FairSpec ==
    /\ Init /\ [][NextExit]_vars
    /\ \A w \in Workers : WF_vars(WorkerExitStep(w)) /\ SF_vars(WLock(w))
    /\ WF_vars(UpdateGPSBody)

\* A healthy stream: the sample sentences, and an RMC and a GGA sentence
\* that their gates reject.
RefreshFrames ==
    SampleFrames \cup
    {Frame("RMC", TRUE, FALSE, 0, 0, 4807, 1131, 0, 1, 7),
     Frame("GGA", TRUE, FALSE, 2, 0, 4807, 1131, 5454, -1, 7)}

WorkerStreamStep(w) ==
    \/ WLoop(w)
    \/ \E f \in RefreshFrames : WReadLine(w, f)
    \/ WProcess(w)

NextRefresh ==
    \/ UpdateGPS
    \/ \E w \in Workers : WorkerStreamStep(w)

\* The thread keeps running, a thread waiting for the mutex gets it, and
\* updateGPS releases it.
FairRefresh ==
    /\ Init /\ [][NextRefresh]_vars
    /\ \A w \in Workers : WF_vars(WorkerStreamStep(w)) /\ SF_vars(WLock(w))
    /\ WF_vars(UpdateGPSBody)

\* Connection attempts: the client disconnects the driver and asks it to
\* connect again, which runs the handshake, while the thread processes the
\* stream or ends.
NextProbe ==
    \/ UpdateGPS
    \/ DriverDisconnect
    \/ Handshake
    \/ IsNMEA
    \/ \E w \in Workers :
        \/ WLoop(w)
        \/ \E f \in ExitFrames : WReadLine(w, f)
        \/ WApplyRMC(w)
        \/ WSkip(w)
        \/ WLock(w)
        \/ WClear(w)

SpecProbe == Init /\ [][NextProbe]_vars

\* The connection's life cycle: the client disconnects and connects the
\* driver, each connect creating a thread; the threads read noise, meet
\* overflow, ECONNREFUSED and other errors, and end.
ThreadFailures == {"TTY_OVERFLOW", "TTY_READ_ERROR"}

WorkerLifeStep(w) ==
    \/ WLoop(w)
    \/ WReadLine(w, Unparsed("INVALID"))
    \/ \E r \in ThreadFailures, e \in Errnos : WReadFail(w, r, e)
    \/ WSkip(w)
    \/ WOverflow(w)
    \/ WOtherTransient(w)
    \/ WRefused(w)
    \/ WRefusedSleep(w)
    \/ \E ok \in BOOLEAN : WRefusedConnect(w, ok)

NextThreads ==
    \/ DriverDisconnect
    \/ Handshake
    \/ IsNMEA
    \/ \E w \in Workers :
        \/ UpdateProperties(w)
        \/ WorkerLifeStep(w)

SpecThreads == Init /\ [][NextThreads]_vars

(***************************************************************************)
(* Properties.                                                             *)
(***************************************************************************)
\* Worker w takes a step of parseNEMA.
Steps(w) == pc'[w] # pc[w]

\* The updateGPS call returns.
Returns == mainPc = "updateGPS" /\ mainPc' = "idle"

\* C1: updateGPS returns IPS_OK and sets both flags when both are false;
\* when either flag is true it returns IPS_BUSY and changes neither flag.  A
\* call that follows another with no flag cleared in between returns
\* IPS_BUSY, and the flags are {true, true} if the first was accepted.
C1_RequestRefresh ==
    [][Returns =>
        /\ IF locationPending = FALSE /\ timePending = FALSE
           THEN rc' = "IPS_OK" /\ locationPending' = TRUE /\ timePending' = TRUE
           ELSE rc' = "IPS_BUSY" /\ UNCHANGED flagVars
        /\ quiet => /\ rc' = "IPS_BUSY"
                    /\ UNCHANGED flagVars
                    /\ rc = "IPS_OK" => locationPending' /\ timePending']_vars

\* A request is refused in the state a ZDA sentence leaves: location still
\* pending, time not.
C1_Witness ==
    /\ mainPc = "idle"
    /\ rc = "IPS_BUSY"
    /\ quiet
    /\ locationPending /\ ~timePending

\* A frame with its time field present and, for RMC, its date field too.
WellFormed(f) == f.parsed /\ f.time # -1 /\ (f.id = "RMC" => f.date # -1)

\* The frame passes its sentence type's validity gate.
PassesGate(f) ==
    \/ f.id = "RMC" /\ f.parsed /\ f.valid
    \/ f.id = "GGA" /\ f.parsed /\ f.fix_quality = 1

\* C2: when the loop has finished processing a well-formed RMC sentence with
\* the validity indicator set, or a well-formed GGA sentence with fix quality
\* 1, both flags are false and the stored longitude is in [0, 360) degrees.
C2_AcceptedClearsBoth ==
    [][\A w \in Workers :
        (pc[w] \in {"dispatch", "locked"} /\ pc'[w] = "loop"
            /\ WellFormed(cur[w]) /\ PassesGate(cur[w]))
        => /\ locationPending' = FALSE
           /\ timePending' = FALSE
           /\ LocationNP'.lon >= 0 /\ LocationNP'.lon < FullCircle
           /\ LocationNP'.lon = NormalizeLongitude(minmea_tocoord(cur[w].longitude))]_vars

\* A valid RMC sentence with a western longitude has been processed while a
\* refresh was pending: the longitude is wrapped, the flags are cleared.
C2_Witness ==
    /\ pc[1] = "loop"
    /\ cur[1].id = "RMC" /\ WellFormed(cur[1]) /\ PassesGate(cur[1])
    /\ cur[1].longitude = -30
    /\ LocationNP.lon = FullCircle - 30
    /\ rc = "IPS_OK"
    /\ ~quiet
    /\ ~locationPending /\ ~timePending

\* C3: processing a parsed ZDA sentence ends by setting timePending to false
\* with locationPending as it was, and no step of it changes the location
\* (latitude, longitude, elevation); before the clear it changes no flag.
C3_ZdaClearsTimeOnly ==
    [][\A w \in Workers :
        (Steps(w) /\ cur[w].id = "ZDA" /\ cur[w].parsed
            /\ pc[w] \in {"dispatch", "lock", "locked"})
        => /\ LocationNP' = LocationNP
           /\ pc[w] = "dispatch" => pc'[w] = "lock" /\ UNCHANGED flagVars
           /\ pc[w] = "lock" => pc'[w] = "locked" /\ UNCHANGED flagVars
           /\ pc[w] = "locked" => /\ pc'[w] = "loop"
                                  /\ timePending' = FALSE
                                  /\ locationPending' = locationPending
                                  /\ UNCHANGED fixVars]_vars

\* A ZDA sentence has been processed during a refresh: the time fields are
\* set, the location flag is still pending, no location was written.
C3_Witness ==
    /\ pc[1] = "loop"
    /\ cur[1].id = "ZDA" /\ cur[1].parsed
    /\ locationPending /\ ~timePending
    /\ TimeTP[1] = Text(Epoch(1, 7))
    /\ LocationNP = [lat |-> 0, lon |-> 0, elev |-> 0]

\* The frame parses and fails its sentence type's validity gate.
FailsGate(f) ==
    \/ f.id = "RMC" /\ f.parsed /\ ~f.valid
    \/ f.id = "GGA" /\ f.parsed /\ f.fix_quality # 1

\* C4: an RMC sentence whose validity indicator is false and a GGA sentence
\* whose fix quality is not 1 leave location, time fields, system clock,
\* both flags and the collaborator calls unchanged, and the loop goes on.
C4_RejectedChangesNothing ==
    [][\A w \in Workers :
        (Steps(w) /\ pc[w] = "dispatch" /\ FailsGate(cur[w]))
        => /\ pc'[w] = "loop"
           /\ UNCHANGED <<fixVars, flagVars, statusVars, calls>>]_vars

\* A GGA sentence with fix quality 0 has been dropped during a refresh,
\* after an earlier sentence had set location and time.
C4_Witness ==
    /\ pc[1] = "loop"
    /\ cur[1].id = "GGA" /\ cur[1].parsed /\ cur[1].fix_quality = 0
    /\ cur[1].longitude = -30
    /\ LocationNP.lon = minmea_tocoord(1131)
    /\ calls[1] = <<>>
    /\ locationPending /\ timePending

\* C5: a parsed GSA sentence sets the label by fix type (1 NO FIX, 2 2D FIX,
\* 3 3D FIX), sends the status property to the client, and changes neither
\* flag nor any location or time field, whatever the flags are.
C5_GsaStatusOnly ==
    [][\A w \in Workers :
        (Steps(w) /\ pc[w] = "dispatch" /\ cur[w].id = "GSA" /\ cur[w].parsed)
        => /\ cur[w].fix_type = 1 => GPSstatusTP'.text = "NO FIX"
           /\ cur[w].fix_type = 2 => GPSstatusTP'.text = "2D FIX"
           /\ cur[w].fix_type = 3 => GPSstatusTP'.text = "3D FIX"
           /\ clientStatus' = GPSstatusTP'
           /\ calls'[w] = <<"IDSetText">>
           /\ pc'[w] = "loop"
           /\ UNCHANGED <<fixVars, flagVars>>]_vars

\* A 2D fix has been published while a refresh was pending.
C5_Witness ==
    /\ pc[1] = "loop"
    /\ cur[1].id = "GSA" /\ cur[1].fix_type = 2
    /\ clientStatus.text = "2D FIX"
    /\ calls[1] = <<"IDSetText">>
    /\ locationPending /\ timePending

\* C6: MAX_TIMEOUT_COUNT + 1 consecutive timeouts, the first read while
\* timeoutCounter is 0, have triggered exactly one forced reconnect and left
\* timeoutCounter at 0.
C6_SixTimeoutsReconnect ==
    toRun.len = MAX_TIMEOUT_COUNT + 1 => toRun.rec = 1 /\ timeoutCounter = 0

\* C7: the overflow branch marks the driver disconnected and ends the
\* thread without touching transport, location, time, flags or counter; an
\* ended thread takes no further step: it reads nothing, calls nothing, and
\* transport, location, time and counter stay as they are (the flags change
\* only through updateGPS).
C7_OverflowTerminates ==
    [][\A w \in Workers :
        /\ (Steps(w) /\ pc[w] = "failed" /\ tty_rc[w] = "TTY_OVERFLOW")
           => /\ pc'[w] = "exited"
              /\ connected' = FALSE
              /\ UNCHANGED <<tcpVars, fixVars, flagVars, timeoutCounter>>
        /\ pc[w] = "exited"
           => /\ pc'[w] = "exited"
              /\ cur'[w] = cur[w] /\ tty_rc'[w] = tty_rc[w] /\ calls'[w] = calls[w]
              /\ UNCHANGED <<tcpVars, fixVars, timeoutCounter>>
              /\ (UNCHANGED flagVars \/ Returns)]_vars

\* The thread ended on an overflow that came with errno ECONNREFUSED and
\* with the timeout counter above its maximum; no reconnect was started.
C7_Witness ==
    /\ pc[1] = "exited"
    /\ tty_rc[1] = "TTY_OVERFLOW"
    /\ errno[1] = "ECONNREFUSED"
    /\ timeoutCounter > MAX_TIMEOUT_COUNT
    /\ calls[1] = <<"setConnected", "updateProperties">>
    /\ tcpFD = 3
    /\ ~connected

\* C8 as stated: the cooldown comes first, with the transport still
\* connected, then Disconnect, Connect and the PortFD refresh.
C8_CooldownThenReconnect ==
    \A w \in Workers :
        /\ pc[w] = "refused_sleep" => calls[w] = <<>>
        /\ pc[w] = "refused_connect" => calls[w] = <<"usleep10">>
        /\ (pc[w] = "loop" /\ Len(calls[w]) = 4 /\ calls[w][4] = "getPortFD"
                /\ errno[w] = "ECONNREFUSED")
           => calls[w] = <<"usleep10", "Disconnect", "Connect", "getPortFD">>

\* C8 amended: on ECONNREFUSED the transport is disconnected first, the
\* 10 s cooldown follows with the transport down, then Connect and the
\* PortFD refresh, and the loop goes on to its next iteration.
C8_DisconnectCooldownConnect ==
    \A w \in Workers :
        /\ pc[w] = "refused_sleep" => calls[w] = <<"Disconnect">> /\ tcpFD = -1
        /\ pc[w] = "refused_connect"
           => calls[w] = <<"Disconnect", "usleep10">> /\ tcpFD = -1
        /\ (pc[w] = "loop" /\ tty_rc[w] # "TTY_OK" /\ tty_rc[w] # "TTY_OVERFLOW"
                /\ errno[w] = "ECONNREFUSED")
           => /\ calls[w] = <<"Disconnect", "usleep10", "Connect", "getPortFD">>
              /\ PortFD = tcpFD

\* An ECONNREFUSED recovery has completed and the transport is up again.
C8_Witness ==
    /\ pc[1] = "loop"
    /\ tty_rc[1] = "TTY_READ_ERROR"
    /\ errno[1] = "ECONNREFUSED"
    /\ calls[1] = <<"Disconnect", "usleep10", "Connect", "getPortFD">>
    /\ PortFD = 3

\* minmea_gettime fails for the frame.
DerivationFails(f) ==
    \/ f.id \in {"RMC", "ZDA"} /\ minmea_gettime(f.date, f.time).rc = -1
    \/ f.id = "GGA" /\ f.time = -1

\* C9: a sentence that passed its validity gate (a parsed ZDA has none) and
\* whose date/time derivation fails is discarded: location, time fields,
\* system clock and flags stay as they were and the loop goes on.
C9_DerivationFailureDiscards ==
    [][\A w \in Workers :
        (Steps(w) /\ pc[w] = "dispatch" /\ DerivationFails(cur[w])
            /\ (PassesGate(cur[w]) \/ (cur[w].id = "ZDA" /\ cur[w].parsed)))
        => /\ pc'[w] = "loop"
           /\ UNCHANGED <<fixVars, flagVars>>]_vars

\* A thread ends only at the loop condition with isConnected() false or in
\* the overflow branch.
ExitsOnlyAtLoopOrOverflow ==
    [][\A w \in Workers :
        (pc'[w] = "exited" /\ pc[w] # "exited")
        => \/ pc[w] = "loop" /\ ~connected
           \/ pc[w] = "failed" /\ tty_rc[w] = "TTY_OVERFLOW"]_vars

\* C10: a thread ends only at the loop condition with isConnected() false
\* or in the overflow branch; and once the driver is disconnected every
\* started thread eventually ends.
C10_WorkerExit ==
    /\ ExitsOnlyAtLoopOrOverflow
    /\ \A w \in Workers :
            (~connected /\ pc[w] # "unborn") ~> (pc[w] = "exited")

\* The client disconnected the driver while the thread was in the timeout
\* reconnect; the thread finished it, saw isConnected() false and ended.
C10_Witness ==
    /\ pc[1] = "exited"
    /\ ~connected
    /\ tty_rc[1] = "TTY_TIME_OUT"
    /\ calls[1] = <<"Disconnect", "usleep5", "Connect", "getPortFD">>

\* The main thread takes a step of isNMEA.
ProbeSteps == mainPc \in {"isNMEA", "isNMEA_return"} /\ mainPc' # mainPc

\* C11: isNMEA reads one line, once.  It returns true exactly when the read
\* succeeded and the line decodes to a sentence id other than Invalid: false
\* on every read failure and on a line without the '$' sentinel.  No step
\* of it changes location, time fields, system clock, flags or the timeout
\* counter.
C11_ProbeStream ==
    [][ProbeSteps =>
        /\ UNCHANGED <<fixVars, flagVars, timeoutCounter>>
        /\ mainPc = "isNMEA" => probe'.reads = 1 /\ mainPc' = "isNMEA_return"
        /\ mainPc = "isNMEA_return" =>
            /\ mainPc' = "idle"
            /\ probe'.reads = 1
            /\ probe'.ret <=> (probe.tty_rc = "TTY_OK"
                                /\ minmea_sentence_id(probe.line) # "INVALID")
            /\ probe.tty_rc \in TtyFailures => ~probe'.ret
            /\ ~probe.line.sentinel => ~probe'.ret]_vars

\* The probe read a line with a known type and a good checksum but no '$'
\* and returned false, with a location stored and a refresh pending.
C11_Witness ==
    /\ mainPc = "idle"
    /\ ~connected
    /\ probe.reads = 1
    /\ probe.tty_rc = "TTY_OK"
    /\ probe.line = [sentinel |-> FALSE, checksum |-> "good", type |-> "RMC"]
    /\ ~probe.ret
    /\ LocationNP.lat = minmea_tocoord(4807)
    /\ locationPending /\ timePending

\* Worker w has just completed a forced reconnect of the transport.
Reconnected(w) ==
    /\ pc[w] = "loop"
    /\ Len(calls[w]) = 4
    /\ SubSeq(calls[w], 3, 4) = <<"Connect", "getPortFD">>

\* C12: immediately after every forced reconnect, triggered by the timeout
\* threshold or by ECONNREFUSED, timeoutCounter is 0.
C12_ReconnectResetsCounter ==
    \A w \in Workers : Reconnected(w) => timeoutCounter = 0

\* The line decodes to Invalid, to a type the switch does not handle, or to
\* a handled type whose parse fails.
Noise(f) == f.id \in {"INVALID", "OTHER"} \/ ~f.parsed

\* C13: processing an Invalid line, a line of an unhandled type or an
\* unparsed sentence, and every step of every read-failure path (timeout
\* below and above the threshold, ECONNREFUSED reconnect, other errors,
\* overflow) leave latitude, longitude, elevation, time fields, system
\* clock and both flags unchanged.
C13_NoiseAndFailuresKeepFix ==
    [][\A w \in Workers :
        /\ (Steps(w) /\ pc[w] = "dispatch" /\ Noise(cur[w]))
           => pc'[w] = "loop" /\ UNCHANGED <<fixVars, flagVars>>
        /\ (Steps(w) /\ pc[w] = "read" /\ pc'[w] = "failed")
           => UNCHANGED <<fixVars, flagVars>>
        /\ (Steps(w) /\ pc[w] \in {"failed", "refused_sleep", "refused_connect",
                                    "timeout_sleep", "timeout_connect"})
           => UNCHANGED <<fixVars, flagVars>>]_vars

\* A forced reconnect after the timeout threshold has completed while a
\* refresh was half done: the location and time a ZDA and an older RMC
\* left are still there.
C13_Witness ==
    /\ Reconnected(1)
    /\ tty_rc[1] = "TTY_TIME_OUT"
    /\ timeoutCounter = 0
    /\ LocationNP.lon = FullCircle - 30
    /\ TimeTP[1] = Text(Epoch(1, 7))
    /\ locationPending /\ ~timePending

\* The sentence passes its gate (a parsed ZDA has none) and its time
\* derivation succeeds.
Accepted(f) ==
    /\ PassesGate(f) \/ (f.id = "ZDA" /\ f.parsed)
    /\ ~DerivationFails(f)

\* The epoch times derived from the sentence; a GGA sentence carries no
\* date and takes the current one.
DerivedEpochs(f) ==
    IF f.id = "GGA" THEN {Epoch(d, f.time) : d \in ValidDates}
    ELSE {Epoch(f.date, f.time)}

\* C14: processing an accepted RMC, GGA or ZDA sentence calls setSystemTime
\* once, with the epoch time derived from the sentence, whatever the flags
\* are, and before the step that clears the flags; GSA, Invalid, unhandled,
\* unparsed and gate-rejected sentences never call it.
C14_SetSystemTime ==
    [][\A w \in Workers :
        /\ (Steps(w) /\ pc[w] = "dispatch" /\ Accepted(cur[w]))
           => /\ calls'[w] = <<"setSystemTime">>
              /\ \E e \in DerivedEpochs(cur[w]) : sysTime' = Text(e)
              /\ pc'[w] = "lock"
              /\ UNCHANGED flagVars
        /\ (Steps(w) /\ pc[w] \in {"lock", "locked"})
           => calls'[w] = calls[w] /\ sysTime' = sysTime
        /\ (Steps(w) /\ pc[w] = "dispatch"
                /\ (cur[w].id = "GSA" \/ Noise(cur[w]) \/ FailsGate(cur[w])))
           => /\ sysTime' = sysTime
              /\ \A i \in 1..Len(calls'[w]) : calls'[w][i] # "setSystemTime"]_vars

\* A ZDA sentence has set the system clock with no refresh pending, and
\* its flag clear is still to come.
C14_Witness ==
    /\ pc[1] = "lock"
    /\ cur[1].id = "ZDA" /\ Accepted(cur[1])
    /\ calls[1] = <<"setSystemTime">>
    /\ sysTime = Text(Epoch(1, 7))
    /\ rc = "none"
    /\ ~locationPending /\ ~timePending

\* Thread w has been created and has not ended.
Alive(w) == ~Free(w)

\* C15: at most one acquisition thread is alive, whatever the sequence of
\* connects, disconnects and overflow-forced disconnects.
C15_SingleWorker == Cardinality({w \in Workers : Alive(w)}) <= 1

\* C16: a thread holds the mutex exactly while it is in its critical
\* section, so never during a read, a reconnect or a cooldown sleep; the
\* flags are written, and read for updateGPS's answer, only in a step of
\* the thread that holds the mutex; a held mutex is always released, so
\* updateGPS is never kept waiting and always returns.
C16_LockDiscipline ==
    /\ [](/\ Cardinality(lock) <= 1
          /\ (MainThread \in lock) = (mainPc = "updateGPS")
          /\ \A w \in Workers : (w \in lock) = (pc[w] = "locked"))
    /\ [][/\ flagVars' # flagVars
             => \/ Returns /\ lock = {MainThread}
                \/ \E w \in Workers : Steps(w) /\ pc[w] = "locked" /\ lock = {w}
          /\ rc' # rc => Returns /\ lock = {MainThread}]_vars
    /\ \A t \in Workers \cup {MainThread} : (lock = {t}) ~> (lock = {})
    /\ (mainPc = "updateGPS") ~> (mainPc = "idle")

\* updateGPS is inside its critical section while the thread sleeps in the
\* cooldown of a timeout-triggered reconnect.
C16_Witness ==
    /\ pc[1] = "timeout_sleep"
    /\ mainPc = "updateGPS"
    /\ lock = {MainThread}
    /\ rc = "IPS_OK"
    /\ LocationNP.lon = FullCircle - 30
    /\ ~locationPending /\ ~timePending

\* C17: when the timeout branch starts a forced reconnect, the last
\* MAX_TIMEOUT_COUNT + 1 read outcomes were all timeouts.
C17_ReconnectAfterTimeoutRun ==
    \A w \in Workers :
        pc[w] = "timeout_sleep" => streak >= MAX_TIMEOUT_COUNT + 1

\* C18: timePending implies locationPending in every reachable state: the
\* flags are {false, false}, {true, true} or location pending alone, never
\* time pending alone.
C18_TimePendingImpliesLocation == timePending => locationPending

\* An accepted refresh is half done: a ZDA sentence has cleared the time
\* flag and the location flag is still pending.
C18_Witness ==
    /\ pc[1] = "loop"
    /\ cur[1].id = "ZDA"
    /\ rc = "IPS_OK"
    /\ ~quiet
    /\ locationPending /\ ~timePending

\* C19: once the thread has read a well-formed valid RMC sentence or GGA
\* sentence with fix quality 1, both flags become false, and a request made
\* when both are false is accepted.  The location flag is cleared by
\* nothing else: through ZDA, GSA, rejected and invalid sentences it stays
\* true, and every request made while it is true returns IPS_BUSY and
\* changes no flag.
C19_RefreshCompletes ==
    /\ \A w \in Workers :
          (pc[w] = "dispatch" /\ PassesGate(cur[w]) /\ WellFormed(cur[w]))
              ~> (~locationPending /\ ~timePending)
    /\ [][/\ (locationPending /\ ~locationPending')
             => \E w \in Workers :
                  /\ Steps(w) /\ pc[w] = "locked"
                  /\ cur[w].id \in {"RMC", "GGA"} /\ PassesGate(cur[w])
          /\ (Returns /\ locationPending)
             => rc' = "IPS_BUSY" /\ UNCHANGED flagVars
          /\ (Returns /\ ~locationPending /\ ~timePending)
             => rc' = "IPS_OK"]_vars

\* A request has been accepted after a GGA sentence with fix quality 1
\* left both flags false.
C19_Witness ==
    /\ mainPc = "idle"
    /\ rc = "IPS_OK"
    /\ quiet
    /\ pc[1] = "read"
    /\ cur[1].id = "GGA" /\ PassesGate(cur[1])
    /\ LocationNP.elev = 5454
    /\ TimeTP[1] = Text(Epoch(1, 7))
    /\ locationPending /\ timePending

\* C20: a critical section that clears a pending flag belongs to a
\* sentence read after the request that set the flag was accepted.
C20_FreshDataOnly ==
    [][\A w \in Workers :
        (Steps(w) /\ pc[w] = "locked" /\ flagVars' # flagVars) => ~stale[w]]_vars

====
